---- MODULE Spec2Model ----
(***************************************************************************)
(* Model of PipelineStack (backend/dataall/cdkproxy/stacks/pipeline.py):   *)
(* the synthesis run of one data pipeline -- repository probe, update or   *)
(* bootstrap of the CodeCommit repository, CodePipeline topology for the   *)
(* trunk and gitflow strategies, outputs, tagging, cdk-nag and the cleanup *)
(* of the local blueprint directory.                                       *)
(***************************************************************************)
EXTENDS Integers, Sequences, FiniteSets, TLC

VARIABLES
    pipeline,                  \* models.DataPipeline: name, repo, devStrategy
    development_environments,  \* rows of query_pipeline_environments, store order
    pc,                        \* position of the run inside __init__
    status,                    \* "Running" | "Succeeded" | "Failed"
    runNo,                     \* number of the synthesis run
    probe,                     \* outcome of the try-block probe of this run
    COMMITID,                  \* shell variable of update_cmds
    tipRead,                   \* tip of main observed by this run's get-branch
    puts,                      \* put-file calls submitted to the service
    fs,                        \* local files: path -> content
    remote,                    \* the CodeCommit repository of pipeline.repo
    resources,                 \* constructs added to the stack by this run
    code_asset,                \* content staged by the Asset construct
    pipelines,                 \* codepipeline.Pipeline constructs of this run
    trace,                     \* steps executed by this run, in order
    injected,                  \* an environment fault was injected in this run
    history,                   \* what the run, and the run before it, went through
    build_projects,            \* codebuild.PipelineProject constructs of this run
    security,                  \* statements of build_role_policy and of the key policy
    share_objects,             \* rows of models.ShareObject, dataset and environments
    shares,                    \* refresh_shares: the rows the query returned
    cursor,                    \* refresh_shares: index of the current share
    sharing_pc,                \* position inside refresh_shares
    calls,                     \* calls made for the shares, in order
    returned                   \* value refresh_shares returned

\* the variables of one synthesis run of PipelineStack
runVars == <<pipeline, development_environments, pc, status, runNo, probe,
             COMMITID, tipRead, puts, fs, remote, resources, code_asset,
             pipelines, trace, injected, history, build_projects, security>>

\* the variables of the data sharing service
sharingVars == <<share_objects, shares, cursor, sharing_pc, calls, returned>>

vars == <<pipeline, development_environments, pc, status, runNo, probe,
          COMMITID, tipRead, puts, fs, remote, resources, code_asset,
          pipelines, trace, injected,
          history,
          build_projects,
          security,
          share_objects, shares, cursor, sharing_pc, calls, returned>>

----------------------------------------------------------------------------
(* Bounds of the model *)

MaxOrder == 3
MaxRuns == 2
MaxTip == 3
MaxShares == 2

\* [:254] of build_shared_db_name
MaxNameLength == 254

(* Inputs *)

Stages == {"dev", "test", "prod"}
Orders == -1 .. MaxOrder
Strategies == {"trunk", "gitflow"}
PipelineNames == {"plA"}

Accounts == {"111111111111", "222222222222"}
Regions == {"eu-west-1", "us-east-1"}

\* models.Environment rows: two in one account, two in one region
Environments ==
    { [environmentUri |-> "env1", AwsAccountId |-> "111111111111",
       region |-> "eu-west-1", samlGroupName |-> "teamA"],
      [environmentUri |-> "env2", AwsAccountId |-> "222222222222",
       region |-> "eu-west-1", samlGroupName |-> "teamB"],
      [environmentUri |-> "env3", AwsAccountId |-> "111111111111",
       region |-> "us-east-1", samlGroupName |-> "teamA"] }

\* a DataPipelineEnvironment row: stage and order, and the columns of its environment
EnvRow(s, o, e) ==
    [stage |-> s, order |-> o, environmentUri |-> e.environmentUri,
     AwsAccountId |-> e.AwsAccountId, region |-> e.region,
     samlGroupName |-> e.samlGroupName]

EnvRows == { EnvRow(s, o, e) : s \in Stages, o \in Orders, e \in Environments }

\* one environment per stage name
StageEnvironment(s) ==
    CHOOSE e \in Environments :
        e.environmentUri = (CASE s = "dev" -> "env1" [] s = "test" -> "env2"
                              [] OTHER -> "env3")

\* a models.DataPipeline row
DataPipeline(n, s) ==
    [name |-> n, repo |-> n, devStrategy |-> s,
     DataPipelineUri |-> "uri-" \o n, template |-> "blueprint"]

\* the environment of pipeline.environmentUri, the same for every pipeline here
CicdEnvironment == CHOOSE e \in Environments : e.environmentUri = "env1"

\* get_pipeline_cicd_environment(pipeline)
get_pipeline_cicd_environment(p) == CicdEnvironment

DistinctStages(envs) ==
    \A i, j \in 1 .. Len(envs) : envs[i].stage = envs[j].stage => i = j

DistinctOrders(envs) ==
    \A i, j \in 1 .. Len(envs) : envs[i].order = envs[j].order => i = j

\* every list of rows with pairwise distinct stage names
EnvLists ==
    { envs \in UNION { [1 .. n -> EnvRows] : n \in 0 .. Cardinality(Stages) } :
        DistinctStages(envs) }

\* lists whose order column is the position in the list (1, 2, ...), every
\* stage in the environment of its name
PositionalEnvLists ==
    { envs \in UNION { { [i \in 1 .. n |-> EnvRow(ss[i], i, StageEnvironment(ss[i]))] :
                           ss \in [1 .. n -> Stages] } :
                       n \in 0 .. Cardinality(Stages) } :
        DistinctStages(envs) }

\* the stage name of the fixed entry of the descriptor, which a row may carry too
ReservedStage == "cicd"

\* lists of rows with distinct stage names, "cicd" among the names, order = position
NamedEnvLists ==
    { envs \in UNION { { [i \in 1 .. n |-> EnvRow(ss[i], i, es[i])] :
                           ss \in [1 .. n -> Stages \cup {ReservedStage}],
                           es \in [1 .. n -> Environments] } :
                       n \in 0 .. Cardinality(Stages) } :
        DistinctStages(envs) }

Range(s) == { s[i] : i \in 1 .. Len(s) }

None == "None"

----------------------------------------------------------------------------
(* Pure helpers of the topology *)

\* number of rows of r whose order is <= o
CountLeq(r, o) == Cardinality({ i \in 1 .. Len(r) : r[i].order <= o })

InsertAt(r, k, e) == SubSeq(r, 1, k) \o <<e>> \o SubSeq(r, k + 1, Len(r))

\* the rows as the store returned them
StoreOrder(envs) == envs

RECURSIVE SortedByOrder(_)
\* sorted(development_environments, key=lambda env: env.order): stable
SortedByOrder(envs) ==
    IF envs = <<>> THEN <<>>
    ELSE LET r == SortedByOrder(SubSeq(envs, 1, Len(envs) - 1))
             e == envs[Len(envs)]
         IN  InsertAt(r, CountLeq(r, e.order), e)

\* if env.order < development_environments.count()
ManualApprovalNeeded(env, envs) == env.order < Len(envs)

\* every stage on the branch of its own name
BranchOfStage(env) == env.stage

\* branch_name = 'main' if (env.stage == 'prod') else env.stage
BranchName(env) == IF env.stage = "prod" THEN "main" ELSE env.stage

BuildProjectId(p, env) == p.name \o "-build-" \o env.stage

\* the stage names in ascending order of the rows
stagesByOrder(envs) ==
    [i \in 1 .. Len(envs) |-> SortedByOrder(envs)[i].stage]

\* self.devStages = [env.stage for env in development_environments]
devStages(envs) == [i \in 1 .. Len(envs) |-> envs[i].stage]

\* AWSACCOUNTID taken from the environment's uri
environment_variables_by_uri(p, pipeline_environment, pipeline_env_team, stage, stages) ==
    [PIPELINE_URI     |-> p.DataPipelineUri,
     PIPELINE_NAME    |-> p.name,
     STAGE            |-> stage,
     DEV_STAGES       |-> stages,
     DEV_STRATEGY     |-> p.devStrategy,
     TEMPLATE         |-> p.template,
     ENVIRONMENT_URI  |-> pipeline_environment.environmentUri,
     AWSACCOUNTID     |-> pipeline_environment.environmentUri,
     AWSREGION        |-> pipeline_environment.region,
     ENVTEAM_ROLENAME |-> pipeline_env_team]

\* make_environment_variables: the value of each BuildEnvironmentVariable
make_environment_variables(p, pipeline_environment, pipeline_env_team, stage, stages) ==
    [PIPELINE_URI     |-> p.DataPipelineUri,
     PIPELINE_NAME    |-> p.name,
     STAGE            |-> stage,
     DEV_STAGES       |-> stages,
     DEV_STRATEGY     |-> p.devStrategy,
     TEMPLATE         |-> p.template,
     ENVIRONMENT_URI  |-> pipeline_environment.environmentUri,
     AWSACCOUNTID     |-> pipeline_environment.AwsAccountId,
     AWSREGION        |-> pipeline_environment.region,
     ENVTEAM_ROLENAME |-> pipeline_env_team]

\* codebuild.PipelineProject(id=f'{pipeline.name}-build-{env.stage}', ...)
PipelineProject(p, env, envs) ==
    [id |-> BuildProjectId(p, env),
     stage |-> env.stage,
     environment_variables |->
         make_environment_variables(p, env, env.samlGroupName, env.stage,
                                    devStages(envs))]

\* the build projects in the order the loops construct them: sorted by order
\* for trunk, store order for gitflow
BuildProjects(p, envs) ==
    LET rows == IF p.devStrategy = "trunk" THEN SortedByOrder(envs) ELSE envs
    IN  [i \in 1 .. Len(rows) |-> PipelineProject(p, rows[i], envs)]

SourceStage(name, branch) ==
    [name |-> name, kind |-> "Source", branch |-> branch, project |-> ""]

DeployStage(p, env) ==
    [name |-> "Deploy-Stage-" \o env.stage, kind |-> "Build", branch |-> "",
     project |-> BuildProjectId(p, env)]

ManualApprovalStage(env) ==
    [name |-> "ManualApproval-" \o env.stage, kind |-> "ManualApproval",
     branch |-> "", project |-> ""]

RECURSIVE TrunkLoop(_, _, _)
\* the for loop of the trunk branch over the sorted rows
TrunkLoop(p, sorted, envs) ==
    IF sorted = <<>> THEN <<>>
    ELSE LET env == Head(sorted)
         IN  <<DeployStage(p, env)>>
             \o (IF ManualApprovalNeeded(env, envs)
                 THEN <<ManualApprovalStage(env)>> ELSE <<>>)
             \o TrunkLoop(p, Tail(sorted), envs)

TrunkPipelines(p, envs) ==
    << [name |-> p.name,
        stages |-> <<SourceStage("Source", "main")>>
                   \o TrunkLoop(p, SortedByOrder(envs), envs)] >>

GitflowPipeline(p, env) ==
    [name |-> p.name \o "-" \o env.stage,
     stages |-> << SourceStage("Source-" \o env.stage, BranchName(env)),
                   DeployStage(p, env) >>]

GitflowPipelines(p, envs) ==
    [i \in 1 .. Len(envs) |-> GitflowPipeline(p, envs[i])]

----------------------------------------------------------------------------
(* Local files below code_dir_path, the remote repository *)

\* f"{code_dir_path}/ddk.json": the descriptor of the update path
DdkJsonAtRoot == "ddk.json"
\* f"{code_dir_path}/code.zip": the path cleanup_zip_directory(code_dir_path) tests
ZipAtRoot == "code.zip"
\* "code.zip" in the working directory of the process (shutil.make_archive)
ZipInCwd == "$CWD/code.zip"
\* os.path.join(code_dir_path, pipeline.repo)
RepoDir(p) == p.repo
InRepo(p, f) == p.repo \o "/" \o f

TreePaths(p) ==
    { RepoDir(p), InRepo(p, "app.py"), InRepo(p, "deploy_buildspec.yaml"),
      InRepo(p, "ddk.json"), InRepo(p, "code.zip") }

LocalArtifacts(p) == TreePaths(p) \cup {DdkJsonAtRoot, ZipAtRoot, ZipInCwd}

Exists(path) == path \in DOMAIN fs

WriteFile(f, path, content) ==
    [q \in DOMAIN f \cup {path} |-> IF q = path THEN content ELSE f[q]]

RemovePaths(f, paths) == [q \in DOMAIN f \ paths |-> f[q]]

Text(s) == << [key |-> s, account |-> "", region |-> "", stage |-> "", Team |-> ""] >>

\* an entry without env_vars
NoTeam == ""

\* write_ddk_json_multienvironment: the entries of "environments" in the order
\* they are printed, the cicd entry first, then one entry per row
write_ddk_json_multienvironment(pipeline_environment, envs) ==
    << [key |-> "cicd", account |-> pipeline_environment.AwsAccountId,
        region |-> pipeline_environment.region, stage |-> "cicd",
        Team |-> NoTeam] >>
    \o [i \in 1 .. Len(envs) |->
           [key |-> envs[i].stage, account |-> envs[i].AwsAccountId,
            region |-> envs[i].region, stage |-> envs[i].stage,
            Team |-> envs[i].samlGroupName]]

\* the descriptor of the pipelines of the model, all in one CI/CD environment
DdkJson(envs) ==
    write_ddk_json_multienvironment(CicdEnvironment, envs)

\* content of ddk.json committed by somebody else
OtherContent == Text("edited")

EmptyCommitId == 0

\* --branch-name main --file-path ddk.json of the put-file command
PutFileBranch == "main"
PutFilePath == "ddk.json"

\* files of the repository besides ddk.json on main: <<branch, path>>
OtherRemoteFiles == { <<"main", "app.py">>, <<"main", "deploy_buildspec.yaml">>,
                      <<"dev", "ddk.json">>, <<"dev", "app.py">> }

NoFiles == [f \in OtherRemoteFiles |-> <<>>]

\* the other files of a repository in use
BlueprintFiles == [f \in OtherRemoteFiles |-> Text("blueprint")]

\* the other files of a repository just created from the archive: main only
ArchiveFiles ==
    [f \in OtherRemoteFiles |-> IF f[1] = "main" THEN Text("blueprint") ELSE <<>>]

NoRepository == [exists |-> FALSE, tip |-> EmptyCommitId, ddk |-> <<>>,
                 rest |-> NoFiles, removal |-> None]

\* the service's put-file: accepted only when the parent is the tip of main
RemotePutFile(r, branch, path, content, parent) ==
    IF parent # r.tip THEN r
    ELSE IF <<branch, path>> = <<"main", "ddk.json">>
         THEN [r EXCEPT !.tip = @ + 1, !.ddk = content]
         ELSE [r EXCEPT !.tip = @ + 1, !.rest[<<branch, path>>] = content]

----------------------------------------------------------------------------
(* The run *)

\* how the run before this one ended, and the repository as this run found it
NoRun == [status |-> None, probe |-> None, injected |-> FALSE,
          scaffold |-> None, exists |-> FALSE, ddk |-> <<>>, rest |-> NoFiles]

NoHistory == [external |-> FALSE, scaffold |-> None, archive |-> None,
              prev |-> NoRun]

Step(s) == trace' = Append(trace, s)

Goto(l) == pc' = l /\ status' = status

\* an exception that is dropped: the constructor goes on to the cleanup
Swallow == pc' = "cleanup" /\ status' = status

\* an exception leaves __init__
Raise == pc' = "done" /\ status' = "Failed"

\* the bootstrap path whatever the probe returned
AlwaysBootstrap(outcome) == "initialize_repo"

\* where the try block of __init__ goes after the probe
AfterProbe(outcome) ==
    IF outcome = "Present" THEN "write_descriptor" ELSE "initialize_repo"

\* the commit id of the previous submission, kept instead of a new read
CachedCommitId(ok) ==
    IF ~ok THEN EmptyCommitId
    ELSE IF puts # <<>> THEN puts[Len(puts)].parent ELSE remote.tip

\* COMMITID=$(aws codecommit get-branch ... --query branch.commitId)
CommitIdRead(ok) == IF ok THEN remote.tip ELSE EmptyCommitId

\* --parent-commit-id ${COMMITID}
ParentCommitId == COMMITID

\* an action of a policy statement: the words of its name, and whether the
\* entry ends in the wildcard (kms:GenerateDataKey* is <<"kms", "GenerateDataKey">>, wild)
ActionEntry(words, wild) == [prefix |-> words, wild |-> wild]

\* does an entry of a statement cover the action of a request
Matches(entry, action) ==
    IF entry.wild
    THEN /\ Len(action) >= Len(entry.prefix)
         /\ SubSeq(action, 1, Len(entry.prefix)) = entry.prefix
    ELSE action = entry.prefix

\* does a statement allow the action on the resource
Allows(statement, action, resource) ==
    /\ \E entry \in statement.actions : Matches(entry, action)
    /\ \E r \in statement.resources : r = "*" \/ r = resource

\* actions of the key service
KmsActions ==
    { <<"kms", "Decrypt">>, <<"kms", "Encrypt">>,
      <<"kms", "GenerateDataKey">>,
      <<"kms", "GenerateDataKey", "WithoutPlaintext">>,
      <<"kms", "GenerateDataKey", "Pair">>,
      <<"kms", "GenerateDataKey", "Pair", "WithoutPlaintext">>,
      <<"kms", "GenerateMac">>, <<"kms", "GenerateRandom">>,
      <<"kms", "ReEncryptFrom">>, <<"kms", "DescribeKey">>,
      <<"kms", "CreateGrant">>, <<"kms", "PutKeyPolicy">>,
      <<"kms", "ScheduleKeyDeletion">> }

\* actions of the version-control service on one repository
RepositoryActions ==
    { <<"codecommit", "GitPull">>, <<"codecommit", "GitPush">>,
      <<"codecommit", "GetFile">>, <<"codecommit", "PutFile">>,
      <<"codecommit", "GetBranch">>, <<"codecommit", "CreateBranch">>,
      <<"codecommit", "GetRepository">>, <<"codecommit", "DeleteRepository">> }

\* f"arn:aws:codecommit:{region}:{AwsAccountId}:{pipeline.repo}"
RepositoryArn(region, account, repo) ==
    "arn:aws:codecommit:" \o region \o ":" \o account \o ":" \o repo

\* full repository actions on every repository
statements_on_any_repository(pipeline_environment, pipeline_env_team, p) ==
    << [actions |-> { ActionEntry(<<"codecommit", "ListRepositories">>, FALSE) },
        resources |-> {"*"}],
       [actions |-> { ActionEntry(<<"codecommit">>, TRUE) },
        resources |-> {"*"}] >>

\* make_codebuild_policy_statements
make_codebuild_policy_statements(pipeline_environment, pipeline_env_team, p) ==
    << [actions |-> { ActionEntry(<<"ec2", "DescribeAvailabilityZones">>, FALSE),
                      ActionEntry(<<"kms", "Decrypt">>, FALSE),
                      ActionEntry(<<"kms", "Encrypt">>, FALSE),
                      ActionEntry(<<"kms", "GenerateDataKey">>, FALSE),
                      ActionEntry(<<"secretsmanager", "GetSecretValue">>, FALSE),
                      ActionEntry(<<"secretsmanager", "DescribeSecret">>, FALSE),
                      ActionEntry(<<"ssm", "GetParametersByPath">>, FALSE),
                      ActionEntry(<<"ssm", "GetParameters">>, FALSE),
                      ActionEntry(<<"ssm", "GetParameter">>, FALSE),
                      ActionEntry(<<"codebuild", "CreateReportGroup">>, FALSE),
                      ActionEntry(<<"codebuild", "CreateReport">>, FALSE),
                      ActionEntry(<<"codebuild", "UpdateReport">>, FALSE),
                      ActionEntry(<<"codebuild", "BatchPutTestCases">>, FALSE),
                      ActionEntry(<<"codebuild", "BatchPutCodeCoverages">>, FALSE),
                      ActionEntry(<<"codecommit", "ListRepositories">>, FALSE),
                      ActionEntry(<<"sts", "AssumeRole">>, FALSE),
                      ActionEntry(<<"cloudformation", "DescribeStacks">>, FALSE) },
        resources |-> {"*"}],
       [actions |-> { ActionEntry(<<"codecommit">>, TRUE) },
        resources |-> { RepositoryArn(pipeline_environment.region,
                                      pipeline_environment.AwsAccountId, p.repo) }] >>

BuildService == [kind |-> "Service", id |-> "codebuild.amazonaws.com"]

\* the build service allowed every key action
AllKeyActions == { ActionEntry(<<"kms">>, TRUE) }

\* actions=["kms:GenerateDataKey*", "kms:Decrypt"]
BuildServiceKeyActions ==
    { ActionEntry(<<"kms", "GenerateDataKey">>, TRUE),
      ActionEntry(<<"kms", "Decrypt">>, FALSE) }

\* policy=iam.PolicyDocument(statements=[...]) of self.codebuild_key
codebuild_key_policy ==
    << [principal |-> [kind |-> "Account", id |-> "self.account"],
        actions |-> { ActionEntry(<<"kms">>, TRUE) },
        resources |-> {"*"}],
       [principal |-> BuildService,
        actions |-> BuildServiceKeyActions,
        resources |-> {"*"}] >>

NoSecurity == [role_policy |-> <<>>, key_policy |-> <<>>]

\* the documents of build_role_policy and of codebuild_key
SecurityOf(p) ==
    [role_policy |-> make_codebuild_policy_statements(
                         get_pipeline_cicd_environment(p), None, p),
     key_policy |-> codebuild_key_policy]

\* a stack in which no policy, role or key has been defined
NoSecurityMaterial == {}

\* build_role_policy, build_project_role and codebuild_key of one stack
SecurityMaterial == {"policy", "PipelineRole", "codebuild-key"}

\* build_role_policy, build_project_role, self.codebuild_key
ProvisionSecurity ==
    /\ pc = "start"
    /\ resources' = resources \cup SecurityMaterial
    /\ security' = SecurityOf(pipeline)
    /\ Step("security")
    /\ Goto("probe")
    /\ UNCHANGED <<pipeline, development_environments, runNo, probe, COMMITID,
                   tipRead, puts, fs, remote, code_asset, pipelines, injected>>
    /\ UNCHANGED history
    /\ UNCHANGED build_projects
    /\ UNCHANGED sharingVars

\* _set_env_vars, aws.client, _check_repository and the if/else on its result
ProbeRepository ==
    /\ pc = "probe"
    /\ \E outcome \in {"Present", "Absent", "Error"} :
          /\ outcome = "Present" => remote.exists
          /\ outcome = "Absent" => ~remote.exists
          /\ probe' = outcome
          /\ injected' = (injected \/ outcome = "Error")
          /\ Goto(AfterProbe(outcome))
    /\ Step("probe")
    /\ UNCHANGED <<pipeline, development_environments, runNo, COMMITID, tipRead,
                   puts, fs, remote, resources, code_asset, pipelines>>
    /\ UNCHANGED history
    /\ UNCHANGED build_projects
    /\ UNCHANGED security
    /\ UNCHANGED sharingVars

\* write_ddk_json_multienvironment(path=code_dir_path, output_file="ddk.json")
WriteDescriptor ==
    /\ pc = "write_descriptor"
    /\ \E ok \in BOOLEAN :
          IF ok
          THEN /\ fs' = WriteFile(fs, DdkJsonAtRoot, DdkJson(development_environments))
               /\ Goto("update_cmds")
               /\ injected' = injected
          ELSE /\ fs' = fs
               /\ Goto("initialize_repo")
               /\ injected' = TRUE
    /\ Step("render_descriptor")
    /\ UNCHANGED <<pipeline, development_environments, runNo, probe, COMMITID,
                   tipRead, puts, remote, resources, code_asset, pipelines>>
    /\ UNCHANGED history
    /\ UNCHANGED build_projects
    /\ UNCHANGED security
    /\ UNCHANGED sharingVars

\* subprocess.run of update_cmds: the get-branch command
GetBranch ==
    /\ pc = "update_cmds"
    /\ \E outcome \in {"raise", "ok", "fail"} :
          IF outcome = "raise"
          THEN /\ Goto("initialize_repo")
               /\ injected' = TRUE
               /\ UNCHANGED <<COMMITID, tipRead, trace>>
          ELSE /\ COMMITID' = CommitIdRead(outcome = "ok")
               /\ tipRead' = IF outcome = "ok" THEN remote.tip ELSE EmptyCommitId
               /\ injected' = (injected \/ outcome = "fail")
               /\ Step("get_branch")
               /\ Goto("put_file")
    /\ UNCHANGED <<pipeline, development_environments, runNo, probe, puts, fs,
                   remote, resources, code_asset, pipelines>>
    /\ UNCHANGED history
    /\ UNCHANGED build_projects
    /\ UNCHANGED security
    /\ UNCHANGED sharingVars

\* the put-file command; process.returncode is not looked at
PutFile ==
    /\ pc = "put_file"
    /\ \E sent \in BOOLEAN :
          IF sent /\ ParentCommitId # EmptyCommitId
          THEN /\ remote' = RemotePutFile(remote, PutFileBranch, PutFilePath,
                                              fs[DdkJsonAtRoot], ParentCommitId)
               /\ puts' = Append(puts, [run |-> runNo, parent |-> ParentCommitId,
                                         read |-> tipRead, tip |-> remote.tip,
                                         accepted |-> (ParentCommitId = remote.tip)])
               /\ injected' = injected
          ELSE /\ injected' = TRUE
               /\ UNCHANGED <<remote, puts>>
    /\ Step("put_file")
    /\ Goto("topology")
    /\ UNCHANGED <<pipeline, development_environments, runNo, probe, COMMITID,
                   tipRead, fs, resources, code_asset, pipelines>>
    /\ UNCHANGED history
    /\ UNCHANGED build_projects
    /\ UNCHANGED security
    /\ UNCHANGED sharingVars

\* somebody else commits to main while update_cmds run
ExternalCommit ==
    /\ pc \in {"update_cmds", "put_file"}
    /\ remote.exists
    /\ remote.tip < MaxTip
    /\ remote' = [remote EXCEPT !.tip = @ + 1, !.ddk = OtherContent]
    /\ history' = [history EXCEPT !.external = TRUE]
    /\ UNCHANGED <<pipeline, development_environments, pc, status, runNo, probe,
                   COMMITID, tipRead, puts, fs, resources, code_asset, pipelines,
                   trace, injected>>
    /\ UNCHANGED build_projects
    /\ UNCHANGED security
    /\ UNCHANGED sharingVars

\* initialize_repo: ddk init and the copies, joined by "; ", returncode unused
InitializeRepo ==
    /\ pc = "initialize_repo"
    /\ \E outcome \in {"ok", "partial", "fail", "raise"} :
          /\ injected' = (injected \/ outcome # "ok")
          /\ history' = [history EXCEPT !.scaffold = outcome]
          /\ CASE outcome = "ok" ->
                    /\ fs' = WriteFile(WriteFile(fs, RepoDir(pipeline), Text("dir")),
                                       InRepo(pipeline, "app.py"), Text("blueprint"))
                    /\ Goto("write_deploy_buildspec")
               [] outcome = "partial" ->
                    /\ fs' = WriteFile(fs, RepoDir(pipeline), Text("dir"))
                    /\ Goto("write_deploy_buildspec")
               [] outcome = "fail" ->
                    /\ fs' = fs
                    /\ Goto("write_deploy_buildspec")
               [] outcome = "raise" ->
                    /\ fs' = fs
                    /\ Raise
    /\ Step("scaffold")
    /\ UNCHANGED <<pipeline, development_environments, runNo, probe, COMMITID,
                   tipRead, puts, remote, resources, code_asset, pipelines>>
    /\ UNCHANGED build_projects
    /\ UNCHANGED security
    /\ UNCHANGED sharingVars

\* write_deploy_buildspec: open(..., 'x') needs the directory and no such file
WriteDeployBuildspec ==
    /\ pc = "write_deploy_buildspec"
    /\ IF Exists(RepoDir(pipeline)) /\ ~Exists(InRepo(pipeline, "deploy_buildspec.yaml"))
       THEN /\ fs' = WriteFile(fs, InRepo(pipeline, "deploy_buildspec.yaml"),
                               Text("buildspec"))
            /\ Goto("write_ddk_json")
       ELSE /\ fs' = fs
            /\ Raise
    /\ Step("buildspec")
    /\ UNCHANGED <<pipeline, development_environments, runNo, probe, COMMITID,
                   tipRead, puts, remote, resources, code_asset, pipelines,
                   injected>>
    /\ UNCHANGED history
    /\ UNCHANGED build_projects
    /\ UNCHANGED security
    /\ UNCHANGED sharingVars

\* write_ddk_json_multienvironment(output_file=f"{pipeline.repo}/ddk.json")
WriteDdkJson ==
    /\ pc = "write_ddk_json"
    /\ \E ok \in BOOLEAN :
          IF ok
          THEN /\ fs' = WriteFile(fs, InRepo(pipeline, "ddk.json"),
                                  DdkJson(development_environments))
               /\ Goto("cleanup_zip")
               /\ injected' = injected
          ELSE /\ fs' = fs
               /\ Raise
               /\ injected' = TRUE
    /\ Step("render_tree_descriptor")
    /\ UNCHANGED <<pipeline, development_environments, runNo, probe, COMMITID,
                   tipRead, puts, remote, resources, code_asset, pipelines>>
    /\ UNCHANGED history
    /\ UNCHANGED build_projects
    /\ UNCHANGED security
    /\ UNCHANGED sharingVars

\* cleanup_zip_directory(path): removes f"{path}/code.zip" when it is a file
cleanup_zip_directory(f) == RemovePaths(f, {ZipAtRoot})

\* cleanup_pipeline_directory(path): shutil.rmtree when it is a directory
cleanup_pipeline_directory(f, p) ==
    IF RepoDir(p) \in DOMAIN f THEN RemovePaths(f, TreePaths(p)) ELSE f

\* PipelineStack.cleanup_zip_directory(code_dir_path) before the archive
CleanupZipBeforeArchive ==
    /\ pc = "cleanup_zip"
    /\ fs' = cleanup_zip_directory(fs)
    /\ Goto("zip_directory")
    /\ UNCHANGED <<pipeline, development_environments, runNo, probe, COMMITID,
                   tipRead, puts, remote, resources, code_asset, pipelines,
                   trace, injected>>
    /\ UNCHANGED history
    /\ UNCHANGED build_projects
    /\ UNCHANGED security
    /\ UNCHANGED sharingVars

\* zip_directory: make_archive in the working directory, move into the tree;
\* every exception is logged and dropped
ZipDirectory ==
    /\ pc = "zip_directory"
    /\ \E outcome \in {"ok", "archive_fails", "move_fails"} :
          /\ injected' = (injected \/ outcome # "ok")
          /\ history' = [history EXCEPT !.archive = outcome]
          /\ fs' = CASE outcome = "ok" ->
                          WriteFile(RemovePaths(fs, {ZipInCwd}),
                                    InRepo(pipeline, "code.zip"),
                                    fs[InRepo(pipeline, "ddk.json")])
                     [] outcome = "archive_fails" -> fs
                     [] outcome = "move_fails" ->
                          WriteFile(fs, ZipInCwd, fs[InRepo(pipeline, "ddk.json")])
    /\ Step("archive")
    /\ Goto("create_repository")
    /\ UNCHANGED <<pipeline, development_environments, runNo, probe, COMMITID,
                   tipRead, puts, remote, resources, code_asset, pipelines>>
    /\ UNCHANGED build_projects
    /\ UNCHANGED security
    /\ UNCHANGED sharingVars

\* the repository resource without a removal policy of its own
RepositoryWithoutRetain == {"asset", "CodecommitRepository"}

\* Asset, CfnRepository and repository.apply_removal_policy(RemovalPolicy.RETAIN)
RepositoryResources == {"asset", "CodecommitRepository", "retain"}

\* the removal policy of the repository resource of a template
RemovalOf(template) ==
    IF "CodecommitRepository" \notin template THEN None
    ELSE IF "retain" \in template THEN "RETAIN" ELSE "DESTROY"

\* Asset(path=.../code.zip), CfnRepository, RemovalPolicy.RETAIN; the Asset
\* construct stages the file when it is constructed and raises without it
CreateRepository ==
    /\ pc = "create_repository"
    /\ IF Exists(InRepo(pipeline, "code.zip"))
       THEN /\ code_asset' = fs[InRepo(pipeline, "code.zip")]
            /\ resources' = resources \cup RepositoryResources
            /\ Goto("topology")
       ELSE /\ UNCHANGED <<code_asset, resources>>
            /\ Raise
    /\ Step("create_repository")
    /\ UNCHANGED <<pipeline, development_environments, runNo, probe, COMMITID,
                   tipRead, puts, fs, remote, pipelines, injected>>
    /\ UNCHANGED history
    /\ UNCHANGED build_projects
    /\ UNCHANGED security
    /\ UNCHANGED sharingVars

\* if pipeline.devStrategy == "trunk": ... else: ...
SynthesizeTopology ==
    /\ pc = "topology"
    /\ pipelines' = IF pipeline.devStrategy = "trunk"
                    THEN TrunkPipelines(pipeline, development_environments)
                    ELSE GitflowPipelines(pipeline, development_environments)
    /\ build_projects' = BuildProjects(pipeline, development_environments)
    /\ Step("topology")
    /\ Goto("outputs")
    /\ UNCHANGED <<pipeline, development_environments, runNo, probe, COMMITID,
                   tipRead, puts, fs, remote, resources, code_asset, injected>>
    /\ UNCHANGED history
    /\ UNCHANGED security
    /\ UNCHANGED sharingVars

\* the local codepipeline_pipeline is bound once a Pipeline was constructed
PipelineBound(ps) == ps # <<>>

\* RepoNameOutput, then PipelineNameOutput from codepipeline_pipeline.pipeline_name
EmitOutputs ==
    /\ pc = "outputs"
    /\ IF PipelineBound(pipelines)
       THEN /\ resources' = resources \cup {"RepoNameOutput", "PipelineNameOutput"}
            /\ Goto("tags")
       ELSE /\ resources' = resources \cup {"RepoNameOutput"}
            /\ Raise
    /\ Step("outputs")
    /\ UNCHANGED <<pipeline, development_environments, runNo, probe, COMMITID,
                   tipRead, puts, fs, remote, code_asset, pipelines, injected>>
    /\ UNCHANGED history
    /\ UNCHANGED build_projects
    /\ UNCHANGED security
    /\ UNCHANGED sharingVars

\* TagsUtil.add_tags(self)
AddTags ==
    /\ pc = "tags"
    /\ resources' = resources \cup {"tags"}
    /\ Step("tagging")
    /\ Goto("nag")
    /\ UNCHANGED <<pipeline, development_environments, runNo, probe, COMMITID,
                   tipRead, puts, fs, remote, code_asset, pipelines, injected>>
    /\ UNCHANGED history
    /\ UNCHANGED build_projects
    /\ UNCHANGED security
    /\ UNCHANGED sharingVars

\* CDKNagUtil.check_rules(self)
CheckRules ==
    /\ pc = "nag"
    /\ \E ok \in BOOLEAN :
          IF ok
          THEN /\ resources' = resources \cup {"nag"}
               /\ Goto("cleanup")
               /\ injected' = injected
          ELSE /\ resources' = resources
               /\ Raise
               /\ injected' = TRUE
    /\ Step("compliance")
    /\ UNCHANGED <<pipeline, development_environments, runNo, probe, COMMITID,
                   tipRead, puts, fs, remote, code_asset, pipelines>>
    /\ UNCHANGED history
    /\ UNCHANGED build_projects
    /\ UNCHANGED security
    /\ UNCHANGED sharingVars

\* cleanup_zip_directory(code_dir_path); cleanup_pipeline_directory(.../repo)
Cleanup ==
    /\ pc = "cleanup"
    /\ fs' = cleanup_pipeline_directory(cleanup_zip_directory(fs), pipeline)
    /\ Step("cleanup")
    /\ pc' = "done"
    /\ status' = "Succeeded"
    /\ UNCHANGED <<pipeline, development_environments, runNo, probe, COMMITID,
                   tipRead, puts, remote, resources, code_asset, pipelines,
                   injected>>
    /\ UNCHANGED history
    /\ UNCHANGED build_projects
    /\ UNCHANGED security
    /\ UNCHANGED sharingVars

\* the synthesized template is deployed: a repository resource that is new is
\* created from the asset; one that the template no longer has leaves the
\* stack, and is deleted unless its removal policy retains it
DeployStack ==
    /\ pc = "done"
    /\ status = "Succeeded"
    /\ \/ /\ "CodecommitRepository" \in resources
          /\ ~remote.exists
          /\ remote' = [exists |-> TRUE, tip |-> 1, ddk |-> code_asset,
                        rest |-> ArchiveFiles, removal |-> RemovalOf(resources)]
       \/ /\ "CodecommitRepository" \notin resources
          /\ remote.exists
          /\ remote.removal # None
          /\ remote' = IF remote.removal = "RETAIN"
                       THEN [remote EXCEPT !.removal = None]
                       ELSE NoRepository
    /\ UNCHANGED <<pipeline, development_environments, pc, status, runNo, probe,
                   COMMITID, tipRead, puts, fs, resources, code_asset, pipelines,
                   trace, injected>>
    /\ UNCHANGED history
    /\ UNCHANGED build_projects
    /\ UNCHANGED security
    /\ UNCHANGED sharingVars

\* the pipelines other than the one of this run
OtherPipelines == { DataPipeline(n, s) : n \in {"plB"}, s \in Strategies }

\* line 180 executed by the run of another pipeline on the same host: its
\* descriptor is written to f"{code_dir_path}/ddk.json", the path of every run
OtherRunWritesDescriptor ==
    /\ pc \in {"start", "probe", "write_descriptor", "update_cmds", "put_file"}
    /\ \E q \in OtherPipelines, envs \in PositionalEnvLists :
          /\ q.repo # pipeline.repo
          /\ fs' = WriteFile(fs, DdkJsonAtRoot,
                             write_ddk_json_multienvironment(
                                 get_pipeline_cicd_environment(q), envs))
    /\ UNCHANGED <<pipeline, development_environments, pc, status, runNo, probe,
                   COMMITID, tipRead, puts, remote, resources, code_asset,
                   pipelines, trace, injected, history, build_projects, security>>
    /\ UNCHANGED sharingVars

\* the caller synthesizes the same pipeline again
StartRun ==
    /\ pc = "done"
    /\ runNo < MaxRuns
    /\ runNo' = runNo + 1
    /\ pc' = "start"
    /\ status' = "Running"
    /\ probe' = None
    /\ COMMITID' = EmptyCommitId
    /\ tipRead' = EmptyCommitId
    /\ resources' = {}
    /\ code_asset' = <<>>
    /\ pipelines' = <<>>
    /\ build_projects' = <<>>
    /\ security' = NoSecurity
    /\ trace' = <<>>
    /\ injected' = FALSE
    /\ history' = [NoHistory EXCEPT
                     !.prev = [status |-> status, probe |-> probe,
                               injected |-> (injected \/ history.external),
                               scaffold |-> history.scaffold,
                               exists |-> remote.exists, ddk |-> remote.ddk,
                               rest |-> remote.rest]]
    /\ UNCHANGED <<pipeline, development_environments, puts, fs, remote>>
    /\ UNCHANGED sharingVars

----------------------------------------------------------------------------
(* DataSharingService (backend/dataall/tasks/data_sharing/                 *)
(* data_sharing_service.py): refresh_shares, approve_share, reject_share,  *)
(* build_shared_db_name. Names are sequences of characters.                *)

\* the first n characters of a name: name[:n]
Take(name, n) == SubSeq(name, 1, IF Len(name) < n THEN Len(name) ELSE n)

\* a name of n characters
Chars(n) == [i \in 1 .. n |-> "d"]

\* '_shared_'
SharedInfix == <<"_", "s", "h", "a", "r", "e", "d", "_">>

\* (dataset.GlueDatabaseName + '_shared_' + share.shareUri)[:254]
build_shared_db_name(dataset, share) ==
    Take(dataset.GlueDatabaseName \o SharedInfix \o share.shareUri, MaxNameLength)

ShareUris == { <<"u", "r", "i", "1">>, <<"u", "r", "i", "2">>, <<"x", "r", "i", "1">> }

\* a short database name, and one that leaves room for two characters of the uri
GlueDatabaseNames == { Chars(3), Chars(MaxNameLength - Len(SharedInfix) - 2) }

ShareStatuses == {"Approved", "Rejected", "Draft"}

\* a models.ShareObject row with the columns of its dataset and of its source
\* and target environments that the service reads
ShareRows ==
    [shareUri : ShareUris, status : ShareStatuses,
     GlueDatabaseName : GlueDatabaseNames,
     source : Accounts, target : Accounts]

\* the table of share objects: rows with pairwise distinct uris
ShareTables ==
    { t \in UNION { [1 .. n -> ShareRows] : n \in 0 .. MaxShares } :
        \A i, j \in DOMAIN t : t[i].shareUri = t[j].shareUri => i = j }

\* the service is not running
SharingIdle ==
    /\ share_objects = <<>>
    /\ shares = <<>>
    /\ cursor = 0
    /\ sharing_pc = "idle"
    /\ calls = <<>>
    /\ returned = None

\* session.query(models.ShareObject).filter(status.in_(['Approved', 'Rejected'])).all()
QueryResult(table) ==
    SelectSeq(table, LAMBDA sh : sh.status \in {"Approved", "Rejected"})

\* a call made for a share: its arguments, and whether it raised
Call(op, share, name, raised) ==
    [op |-> op, uri |-> share.shareUri, account |-> share.source,
     db |-> share.GlueDatabaseName, name |-> name, raised |-> raised]

\* the same-account handler whatever the accounts
SameAccountHandler(share) ==
    IF share.status = "Approved" THEN "SameAccountShareApproval.approve_share"
                                 ELSE "SameAccountShareRevoke.revoke_share"

\* the handler a call of approve_share / reject_share dispatches to
Handler(share) ==
    IF share.source # share.target
    THEN (IF share.status = "Approved" THEN "CrossAccountShareApproval.approve_share"
                                        ELSE "CrossAccountShareRevoke.revoke_share")
    ELSE (IF share.status = "Approved" THEN "SameAccountShareApproval.approve_share"
                                        ELSE "SameAccountShareRevoke.revoke_share")

\* the next iteration of the for loop, or return True after the last one
NextShare ==
    IF cursor < Len(shares)
    THEN /\ cursor' = cursor + 1
         /\ sharing_pc' = "get_share_data"
         /\ returned' = returned
    ELSE /\ cursor' = cursor
         /\ sharing_pc' = "done"
         /\ returned' = "True"

\* an exception that leaves refresh_shares
Propagate ==
    /\ cursor' = cursor
    /\ sharing_pc' = "done"
    /\ returned' = "raised"

\* except Exception as e: log.error(...), and the loop goes on
Caught == NextShare

\* with engine.scoped_session(): environments and shares are read
QueryShares ==
    /\ sharing_pc = "query"
    /\ shares' = QueryResult(share_objects)
    /\ sharing_pc' = "toggle"
    /\ UNCHANGED <<share_objects, cursor, calls, returned, runVars>>

\* the shares/cleanlfv1ram toggle and clean_lfv1_ram_resources, outside any try
CleanLfv1 ==
    /\ sharing_pc = "toggle"
    /\ \E outcome \in {"off", "cleaned", "raise"} :
          IF outcome = "raise"
          THEN Propagate
          ELSE /\ sharing_pc' = "check_shares"
               /\ UNCHANGED <<cursor, returned>>
    /\ UNCHANGED <<share_objects, shares, calls, runVars>>

\* if not shares: return True; else the for loop starts
CheckShares ==
    /\ sharing_pc = "check_shares"
    /\ IF shares = <<>>
       THEN /\ sharing_pc' = "done"
            /\ returned' = "True"
            /\ cursor' = cursor
       ELSE /\ sharing_pc' = "get_share_data"
            /\ returned' = returned
            /\ cursor' = 1
    /\ UNCHANGED <<share_objects, shares, calls, runVars>>

\* cls.approve_share / cls.reject_share is called for the share of the
\* iteration (neither for another status), reads the share data and builds
\* the shared database name
GetShareData ==
    /\ sharing_pc = "get_share_data"
    /\ LET share == shares[cursor]
       IN  IF share.status \notin {"Approved", "Rejected"}
           THEN /\ calls' = calls
                /\ NextShare
           ELSE \E ok \in BOOLEAN :
                   /\ calls' = Append(calls,
                          Call(IF share.status = "Approved" THEN "approve_share"
                                                            ELSE "reject_share",
                               share, <<>>, ~ok))
                   /\ IF ok
                      THEN /\ sharing_pc' = "grant"
                           /\ UNCHANGED <<cursor, returned>>
                      ELSE Caught
    /\ UNCHANGED <<share_objects, shares, runVars>>

\* LakeFormation.grant_pivot_role_all_database_permissions(source account,
\* source region, dataset.GlueDatabaseName)
GrantPivotRole ==
    /\ sharing_pc = "grant"
    /\ LET share == shares[cursor]
       IN  \E ok \in BOOLEAN :
              /\ calls' = Append(calls,
                     Call("grant_pivot_role_all_database_permissions", share,
                          <<>>, ~ok))
              /\ IF ok
                 THEN /\ sharing_pc' = "dispatch"
                      /\ UNCHANGED <<cursor, returned>>
                 ELSE Caught
    /\ UNCHANGED <<share_objects, shares, runVars>>

\* if source_environment.AwsAccountId != target_environment.AwsAccountId:
\* the cross-account handler, else the same-account handler; what the handler
\* returns is dropped by refresh_shares and what it raises is caught
Dispatch ==
    /\ sharing_pc = "dispatch"
    /\ LET share == shares[cursor]
       IN  \E ok \in BOOLEAN :
              /\ calls' = Append(calls,
                     Call(Handler(share), share,
                          build_shared_db_name(share, share), ~ok))
              /\ IF ok THEN NextShare ELSE Caught
    /\ UNCHANGED <<share_objects, shares, runVars>>

----------------------------------------------------------------------------
(* Specifications                                                          *)
(* Spec: successive runs for one pipeline, every outcome of every step,    *)
(* over environment lists whose order column is 1..n.                      *)
(* SpecTopology: the steps from the topology on, over every environment    *)
(* list (any orders, any store order).                                     *)
(* SpecUpdate: one run up to the end of the update path, stage names       *)
(* including "cicd".                                                       *)
(* SpecConcurrent: the update path while the run of another pipeline       *)
(* renders its descriptor on the same host.                                *)

RunStart(p, envs, r) ==
    /\ pipeline = p
    /\ development_environments = envs
    /\ pc = "start"
    /\ status = "Running"
    /\ runNo = 1
    /\ probe = None
    /\ COMMITID = EmptyCommitId
    /\ tipRead = EmptyCommitId
    /\ puts = <<>>
    /\ fs = <<>>
    /\ remote = r
    /\ resources = {}
    /\ code_asset = <<>>
    /\ pipelines = <<>>
    /\ trace = <<>>
    /\ injected = FALSE
    /\ history = [NoHistory EXCEPT !.prev.exists = r.exists, !.prev.ddk = r.ddk,
                                   !.prev.rest = r.rest]
    /\ build_projects = <<>>
    /\ security = NoSecurity

PipelineRecords == { DataPipeline(n, s) : n \in PipelineNames, s \in Strategies }

InitialRemotes ==
    { NoRepository,
      [exists |-> TRUE, tip |-> 1, ddk |-> OtherContent, rest |-> BlueprintFiles,
       removal |-> RemovalOf(RepositoryResources)] }

Init ==
    /\ SharingIdle
    /\ \E p \in PipelineRecords, envs \in PositionalEnvLists, r \in InitialRemotes :
        RunStart(p, envs, r)

Next ==
    \/ ProvisionSecurity
    \/ ProbeRepository
    \/ WriteDescriptor
    \/ GetBranch
    \/ PutFile
    \/ ExternalCommit
    \/ InitializeRepo
    \/ WriteDeployBuildspec
    \/ WriteDdkJson
    \/ CleanupZipBeforeArchive
    \/ ZipDirectory
    \/ CreateRepository
    \/ SynthesizeTopology
    \/ EmitOutputs
    \/ AddTags
    \/ CheckRules
    \/ Cleanup
    \/ DeployStack
    \/ StartRun

Spec == Init /\ [][Next]_vars

\* the state in front of the topology, after an update of the descriptor
TopologyStart(p, envs) ==
    /\ pipeline = p
    /\ development_environments = envs
    /\ pc = "topology"
    /\ status = "Running"
    /\ runNo = 1
    /\ probe = "Present"
    /\ COMMITID = 1
    /\ tipRead = 1
    /\ puts = << [run |-> 1, parent |-> 1, read |-> 1, tip |-> 1, accepted |-> TRUE] >>
    /\ fs = WriteFile(<<>>, DdkJsonAtRoot, DdkJson(envs))
    /\ remote = [exists |-> TRUE, tip |-> 2, ddk |-> DdkJson(envs),
                 rest |-> BlueprintFiles, removal |-> RemovalOf(RepositoryResources)]
    /\ resources = {"policy", "PipelineRole", "codebuild-key"}
    /\ code_asset = <<>>
    /\ pipelines = <<>>
    /\ trace = <<"security", "probe", "render_descriptor", "get_branch", "put_file">>
    /\ injected = FALSE
    /\ history = NoHistory
    /\ build_projects = <<>>
    /\ security = SecurityOf(p)

InitTopology ==
    /\ SharingIdle
    /\ \E p \in PipelineRecords, envs \in EnvLists : TopologyStart(p, envs)

NextTopology ==
    \/ SynthesizeTopology
    \/ EmitOutputs
    \/ AddTags
    \/ CheckRules
    \/ Cleanup

\* the topology over every environment list, from the state in front of it
SpecTopology == InitTopology /\ [][NextTopology]_vars

ExistingRemotes == { r \in InitialRemotes : r.exists }

InitUpdate ==
    /\ SharingIdle
    /\ \E p \in PipelineRecords, envs \in NamedEnvLists, r \in ExistingRemotes :
        RunStart(p, envs, r)

NextUpdate ==
    \/ ProvisionSecurity
    \/ ProbeRepository
    \/ WriteDescriptor
    \/ GetBranch
    \/ PutFile

\* one run up to the end of the update path, over lists whose stage names
\* include the name of the fixed entry
SpecUpdate == InitUpdate /\ [][NextUpdate]_vars

InitConcurrent ==
    /\ SharingIdle
    /\ \E p \in PipelineRecords, envs \in PositionalEnvLists, r \in ExistingRemotes :
        RunStart(p, envs, r)

NextConcurrent ==
    \/ ProvisionSecurity
    \/ ProbeRepository
    \/ WriteDescriptor
    \/ GetBranch
    \/ PutFile
    \/ OtherRunWritesDescriptor

\* the update path of one run while the run of another pipeline renders its
\* descriptor on the same host
SpecConcurrent == InitConcurrent /\ [][NextConcurrent]_vars

InitSharing ==
    /\ RunStart(DataPipeline("plA", "trunk"), <<>>, NoRepository)
    /\ \E t \in ShareTables : share_objects = t
    /\ shares = <<>>
    /\ cursor = 0
    /\ sharing_pc = "query"
    /\ calls = <<>>
    /\ returned = None

NextSharing ==
    \/ QueryShares
    \/ CleanLfv1
    \/ CheckShares
    \/ GetShareData
    \/ GrantPivotRole
    \/ Dispatch

\* one call of refresh_shares over every table of share objects
SpecSharing == InitSharing /\ [][NextSharing]_vars

----------------------------------------------------------------------------
(* Properties *)

Did(s) == s \in Range(trace)

BootstrapSteps == {"scaffold", "buildspec", "render_tree_descriptor", "archive",
                   "create_repository"}

Synthesized(strategy) == pipeline.devStrategy = strategy /\ Did("topology")

StageNames(pl) == [i \in 1 .. Len(pl.stages) |-> pl.stages[i].name]

Approvals(pl) ==
    { i \in 1 .. Len(pl.stages) : pl.stages[i].kind = "ManualApproval" }

GreatestOrder(envs) ==
    CHOOSE m \in { e.order : e \in Range(envs) } :
        \A e \in Range(envs) : e.order <= m

ApprovalFollowsDeploy(names, stage) ==
    \E i \in 1 .. Len(names) - 1 :
        /\ names[i] = "Deploy-Stage-" \o stage
        /\ names[i + 1] = "ManualApproval-" \o stage

OrderOfDeployStage(st, envs) ==
    (CHOOSE e \in Range(envs) : "Deploy-Stage-" \o e.stage = st.name).order

\* C1: a probe that fails with another error than "repository does not exist"
\* ends the run as failed and runs no step of the bootstrap path.
C1_ProbeErrorAbortsRun ==
    probe = "Error" =>
        /\ \A s \in BootstrapSteps : ~Did(s)
        /\ pc = "done" => status = "Failed"

\* C2: a run whose probe found the repository runs no scaffold, archive or
\* create-repository step, whatever happens in the update steps; a successful
\* run whose probe found no repository ran the scaffold, the archive and the
\* creation of the repository.
C2_BootstrapUpdateExclusive ==
    /\ probe = "Present" => \A s \in BootstrapSteps : ~Did(s)
    /\ (probe = "Absent" /\ status = "Succeeded") =>
           /\ \A s \in BootstrapSteps : Did(s)
           /\ ~Did("render_descriptor")

\* C3: trunk, pairwise distinct orders, n >= 1 environments: ManualApproval-<stage>
\* directly follows Deploy-Stage-<stage> for every environment but the one of the
\* greatest order, and there are exactly n - 1 approval stages.
C3_ApprovalForAllButGreatestOrder ==
    (/\ Synthesized("trunk")
     /\ Len(development_environments) >= 1
     /\ DistinctOrders(development_environments)) =>
        LET envs == development_environments
            names == StageNames(pipelines[1])
        IN  /\ \A e \in Range(envs) :
                   ApprovalFollowsDeploy(names, e.stage)
                       <=> e.order # GreatestOrder(envs)
            /\ Cardinality(Approvals(pipelines[1])) = Len(envs) - 1

\* stage and order of every row, in store order
StageOrders(envs) == [i \in 1 .. Len(envs) |-> <<envs[i].stage, envs[i].order>>]

DevTestProd == { <<"dev", 1>>, <<"test", 2>>, <<"prod", 3>> }

\* C4: trunk yields exactly one pipeline named after the pipeline, its first stage
\* is Source on branch main, the Deploy-Stage stages follow in ascending order
\* whatever the store order, one per environment; orders 1,2,3 of dev,test,prod
\* give Source, Deploy-Stage-dev, ManualApproval-dev, Deploy-Stage-test,
\* ManualApproval-test, Deploy-Stage-prod.
C4_TrunkTopologyShape ==
    Synthesized("trunk") =>
        LET envs == development_environments
            pl == pipelines[1]
            builds == SelectSeq(pl.stages, LAMBDA st : st.kind = "Build")
        IN  /\ Len(pipelines) = 1
            /\ pl.name = pipeline.name
            /\ pl.stages[1] = SourceStage("Source", "main")
            /\ \A i \in 2 .. Len(pl.stages) : pl.stages[i].kind # "Source"
            /\ Len(builds) = Len(envs)
            /\ { st.name : st \in Range(builds) }
                   = { "Deploy-Stage-" \o e.stage : e \in Range(envs) }
            /\ \A i, j \in 1 .. Len(builds) :
                   i < j => OrderOfDeployStage(builds[i], envs)
                                <= OrderOfDeployStage(builds[j], envs)
            /\ (Range(StageOrders(envs)) = DevTestProd /\ Len(envs) = 3) =>
                   StageNames(pl) = << "Source", "Deploy-Stage-dev",
                                       "ManualApproval-dev", "Deploy-Stage-test",
                                       "ManualApproval-test", "Deploy-Stage-prod" >>

\* C4 witness: the store returned prod, dev, test and the trunk pipeline is built
C4_Witness ==
    /\ Synthesized("trunk")
    /\ StageOrders(development_environments) =
           << <<"prod", 3>>, <<"dev", 1>>, <<"test", 2>> >>
    /\ Len(pipelines[1].stages) = 6

\* C5: trunk with exactly one environment, whatever its order: the stages are
\* Source, Deploy-Stage-<stage> and there is no approval stage.
C5_SingleEnvironmentNoApproval ==
    (Synthesized("trunk") /\ Len(development_environments) = 1) =>
        StageNames(pipelines[1])
            = << "Source", "Deploy-Stage-" \o development_environments[1].stage >>

\* C6: gitflow yields one pipeline per environment, named <pipeline-name>-<stage>,
\* with exactly the stages Source-<stage> and Deploy-Stage-<stage>; the source
\* branch is main for prod and the stage name otherwise; no approval stage.
C6_GitflowTopologyShape ==
    Synthesized("gitflow") =>
        LET envs == development_environments
        IN  /\ Len(pipelines) = Len(envs)
            /\ \A i \in 1 .. Len(envs) :
                   LET pl == pipelines[i]
                       stage == envs[i].stage
                   IN  /\ pl.name = pipeline.name \o "-" \o stage
                       /\ StageNames(pl) = << "Source-" \o stage,
                                              "Deploy-Stage-" \o stage >>
                       /\ pl.stages[1].kind = "Source"
                       /\ pl.stages[1].branch =
                              (IF stage = "prod" THEN "main" ELSE stage)
                       /\ pl.stages[2].kind = "Build"
                       /\ Approvals(pl) = {}

\* C6 witness: gitflow pipelines for dev and prod are built
C6_Witness ==
    /\ Synthesized("gitflow")
    /\ Len(pipelines) = 2
    /\ { e.stage : e \in Range(development_environments) } = {"dev", "prod"}
    /\ \E i \in 1 .. 2 : pipelines[i].stages[1].branch = "main"
    /\ \E i \in 1 .. 2 : pipelines[i].stages[1].branch = "dev"

\* C7: with no environment and no injected fault the first run does not fail,
\* under trunk and under gitflow.
C7_EmptyListCompletes ==
    (development_environments = <<>> /\ runNo = 1 /\ ~injected) =>
        status # "Failed"

\* C8: once a run has ended, succeeded or failed, none of the local artifacts
\* (rendered tree, code.zip, update-path ddk.json) is left.
C8_NoLocalArtifactRemains ==
    pc = "done" => DOMAIN fs \cap LocalArtifacts(pipeline) = {}

\* C9: a run does not end as succeeded while a put-file it submitted was rejected.
C9_RejectedCommitNotDropped ==
    status = "Succeeded" =>
        \A i \in 1 .. Len(puts) : puts[i].run = runNo => puts[i].accepted

\* C10: every put-file carries the tip of main that the same run read in the step
\* right before it; a parent that is not the tip is rejected and leaves the
\* repository as it was; a parent that is the tip is accepted and the descriptor
\* replaces ddk.json.
C10_PutFileCarriesFreshTip ==
    [][ puts' # puts =>
          LET p == puts'[Len(puts')]
          IN  /\ Len(puts') = Len(puts) + 1
              /\ p.run = runNo
              /\ trace[Len(trace)] = "get_branch"
              /\ tipRead # EmptyCommitId
              /\ p.parent = tipRead
              /\ p.parent # remote.tip => (remote' = remote /\ ~p.accepted)
              /\ p.parent = remote.tip =>
                     /\ p.accepted
                     /\ remote'.tip = remote.tip + 1
                     /\ remote'.ddk = DdkJson(development_environments) ]_vars

\* C10 witness: the first run's put-file was rejected, the second run read the
\* tip again and its put-file was accepted
C10_Witness ==
    /\ Len(puts) = 2
    /\ ~puts[1].accepted
    /\ puts[2].accepted
    /\ puts[2].run > puts[1].run
    /\ puts[2].parent # puts[1].parent
    /\ remote.ddk = DdkJson(development_environments)

\* the run before this one bootstrapped an absent repository without any fault,
\* its template was deployed, and nothing disturbs this run
AfterCleanBootstrap ==
    /\ history.prev.status = "Succeeded"
    /\ history.prev.probe = "Absent"
    /\ ~history.prev.injected
    /\ history.prev.exists
    /\ ~injected
    /\ ~history.external

\* C11: a run that follows a bootstrap of the absent repository, with the same
\* environment list, takes the update path and no step of the bootstrap path,
\* and the descriptor of the repository after it is the one after the first run.
C11_SecondRunUpdatesSameDescriptor ==
    AfterCleanBootstrap =>
        /\ probe \in {None, "Present"}
        /\ \A s \in BootstrapSteps : ~Did(s)
        /\ history.prev.ddk = DdkJson(development_environments)
        /\ status # "Failed"
        /\ status = "Succeeded" =>
               /\ Did("render_descriptor") /\ Did("put_file")
               /\ remote.ddk = history.prev.ddk

\* C11 witness: the second run ended after its put-file on the deployed repository
C11_Witness ==
    /\ AfterCleanBootstrap
    /\ runNo = 2
    /\ status = "Succeeded"
    /\ puts # <<>>
    /\ puts[Len(puts)].run = 2
    /\ puts[Len(puts)].accepted
    /\ remote.ddk = history.prev.ddk

\* C15: a run that follows a run which failed after it began to render the
\* bootstrap tree, with the same inputs and with no fault of its own, does not
\* fail: what the failed run left on disk never makes the next run fail.
C15_LeftoversNeverFailNextRun ==
    ( /\ history.prev.status = "Failed"
      /\ history.prev.scaffold # None
      /\ ~injected
      /\ ~history.external )
    => status # "Failed"

\* C20: a run in which the scaffolding tool failed (ddk init left no tree or a
\* partial one) or the archive was not created does not end as a success.
C20_ScaffoldAndArchiveFailuresSurface ==
    ( \/ history.scaffold \in {"partial", "fail"}
      \/ history.archive \in {"archive_fails", "move_fails"} )
    => status # "Succeeded"

\* position of each step in the constructor, top to bottom
StepRank(s) ==
    CASE s = "security"               -> 1
      [] s = "probe"                  -> 2
      [] s = "render_descriptor"      -> 3
      [] s = "get_branch"             -> 4
      [] s = "put_file"               -> 5
      [] s = "scaffold"               -> 6
      [] s = "buildspec"              -> 7
      [] s = "render_tree_descriptor" -> 8
      [] s = "archive"                -> 9
      [] s = "create_repository"      -> 10
      [] s = "topology"               -> 11
      [] s = "outputs"                -> 12
      [] s = "tagging"                -> 13
      [] s = "compliance"             -> 14
      [] s = "cleanup"                -> 15

\* position of each step in the order probe, render, bootstrap-or-update,
\* security material, topology, post-processing, cleanup
StatedRank(s) ==
    CASE s = "probe"                  -> 1
      [] s = "render_descriptor"      -> 2
      [] s = "get_branch"             -> 3
      [] s = "put_file"               -> 4
      [] s = "scaffold"               -> 5
      [] s = "buildspec"              -> 6
      [] s = "render_tree_descriptor" -> 7
      [] s = "archive"                -> 8
      [] s = "create_repository"      -> 9
      [] s = "security"               -> 10
      [] s = "topology"               -> 11
      [] s = "outputs"                -> 12
      [] s = "tagging"                -> 13
      [] s = "compliance"             -> 14
      [] s = "cleanup"                -> 15

TenKeys == {"PIPELINE_URI", "PIPELINE_NAME", "STAGE", "DEV_STAGES", "DEV_STRATEGY",
            "TEMPLATE", "ENVIRONMENT_URI", "AWSACCOUNTID", "AWSREGION",
            "ENVTEAM_ROLENAME"}

\* the row of the environment list a build project was made for
RowOfStage(stage) ==
    CHOOSE env \in Range(development_environments) : env.stage = stage

\* C12: the environment variables of every build project are exactly the ten
\* keys, each with the value of its source attribute, and the variables made
\* for the same environment under another account id differ in AWSACCOUNTID
\* and in no other key.
C12_EnvironmentVariablesComplete ==
    Did("topology") =>
        /\ Len(build_projects) = Len(development_environments)
        /\ \A i \in DOMAIN build_projects :
             LET ev  == build_projects[i].environment_variables
                 env == RowOfStage(build_projects[i].stage)
             IN  /\ DOMAIN ev = TenKeys
                 /\ ev.PIPELINE_URI = pipeline.DataPipelineUri
                 /\ ev.PIPELINE_NAME = pipeline.name
                 /\ ev.STAGE = env.stage
                 /\ ev.DEV_STAGES = [k \in DOMAIN development_environments |->
                                        development_environments[k].stage]
                 /\ ev.DEV_STRATEGY = pipeline.devStrategy
                 /\ ev.TEMPLATE = pipeline.template
                 /\ ev.ENVIRONMENT_URI = env.environmentUri
                 /\ ev.AWSACCOUNTID = env.AwsAccountId
                 /\ ev.AWSREGION = env.region
                 /\ ev.ENVTEAM_ROLENAME = env.samlGroupName
                 /\ \A a \in Accounts \ {env.AwsAccountId} :
                      LET other == make_environment_variables(
                                       pipeline, [env EXCEPT !.AwsAccountId = a],
                                       env.samlGroupName, env.stage,
                                       devStages(development_environments))
                      IN  /\ other.AWSACCOUNTID = a
                          /\ other.AWSACCOUNTID # ev.AWSACCOUNTID
                          /\ \A k \in TenKeys \ {"AWSACCOUNTID"} : other[k] = ev[k]

\* C12 witness: build projects for two environments of different accounts
C12_Witness ==
    /\ Did("topology")
    /\ Len(build_projects) = 2
    /\ build_projects[1].environment_variables.AWSACCOUNTID = "111111111111"
    /\ build_projects[2].environment_variables.AWSACCOUNTID = "222222222222"
    /\ build_projects[1].environment_variables.AWSREGION = "us-east-1"

\* C16: the rendered descriptor has exactly one entry of key cicd, with the
\* account and region of the CI/CD environment, and one entry per stage with
\* the account, region, stage name and team of its row; the keys are cicd and
\* the stage names; rendering the same inputs again gives the same descriptor.
C16_DescriptorEntries ==
    (Did("render_descriptor") /\ Exists(DdkJsonAtRoot)) =>
        LET d == fs[DdkJsonAtRoot]
            envs == development_environments
        IN  /\ Cardinality({ i \in DOMAIN d : d[i].key = "cicd" }) = 1
            /\ \A i \in DOMAIN d :
                   d[i].key = "cicd" =>
                       /\ d[i].account = get_pipeline_cicd_environment(pipeline).AwsAccountId
                       /\ d[i].region = get_pipeline_cicd_environment(pipeline).region
            /\ Len(d) = Len(envs) + 1
            /\ \A k \in DOMAIN envs :
                   Cardinality({ i \in DOMAIN d :
                       /\ d[i].key = envs[k].stage
                       /\ d[i].account = envs[k].AwsAccountId
                       /\ d[i].region = envs[k].region
                       /\ d[i].stage = envs[k].stage
                       /\ d[i].Team = envs[k].samlGroupName }) = 1
            /\ { d[i].key : i \in DOMAIN d } = {"cicd"} \cup Range(devStages(envs))
            /\ d = write_ddk_json_multienvironment(
                       get_pipeline_cicd_environment(pipeline), envs)

\* names of repositories of pipelines, this one's and others'
RepositoryNames == PipelineNames \cup {"plB", "plC"}

AllRepositoryArns ==
    { RepositoryArn(r, a, n) : r \in Regions, a \in Accounts, n \in RepositoryNames }

\* the ARN of the repository of p
OwnRepositoryArn(p) ==
    RepositoryArn(get_pipeline_cicd_environment(p).region,
                  get_pipeline_cicd_environment(p).AwsAccountId, p.repo)

\* some statement of the policy allows the action on the resource
PolicyAllows(policy, action, resource) ==
    \E i \in DOMAIN policy : Allows(policy[i], action, resource)

\* C17: the role policy allows every repository action on the repository of
\* its own pipeline and no repository action on any other repository; the
\* same holds of the statements made for any pipeline A against the
\* repository of any other pipeline B.
C17_RepositoryActionsOnOwnRepositoryOnly ==
    Did("security") =>
        /\ \A a \in RepositoryActions :
               PolicyAllows(security.role_policy, a, OwnRepositoryArn(pipeline))
        /\ \A arn \in AllRepositoryArns \ {OwnRepositoryArn(pipeline)} :
               \A a \in RepositoryActions :
                   ~PolicyAllows(security.role_policy, a, arn)
        /\ pc = "probe" =>
           \A A, B \in RepositoryNames, eA, eB \in Environments :
               LET arnA == RepositoryArn(eA.region, eA.AwsAccountId, A)
                   arnB == RepositoryArn(eB.region, eB.AwsAccountId, B)
                   policyA == make_codebuild_policy_statements(
                                  eA, None, [pipeline EXCEPT !.name = A, !.repo = A])
               IN  arnA # arnB =>
                       \A a \in RepositoryActions : ~PolicyAllows(policyA, a, arnB)

\* C17 witness: the role policy exists, its second statement names the own
\* repository, and a push to the repository of another pipeline is not allowed
C17_Witness ==
    /\ Did("security")
    /\ Len(security.role_policy) = 2
    /\ security.role_policy[2].resources = {OwnRepositoryArn(pipeline)}
    /\ PolicyAllows(security.role_policy, <<"codecommit", "GitPush">>,
                    OwnRepositoryArn(pipeline))
    /\ ~PolicyAllows(security.role_policy, <<"codecommit", "GitPush">>,
                     RepositoryArn("eu-west-1", "111111111111", "plB"))

\* key actions the key policy allows to the principal
AllowedKeyActions(principal) ==
    { a \in KmsActions :
        \E i \in DOMAIN security.key_policy :
            /\ security.key_policy[i].principal = principal
            /\ Allows(security.key_policy[i], a, "*") }

C19_UpdateReplacesDescriptorOnly ==
    ( /\ Did("put_file")
      /\ ~Did("scaffold")
      /\ ~injected )
    => /\ remote.ddk = write_ddk_json_multienvironment(
                           get_pipeline_cicd_environment(pipeline),
                           development_environments)
       /\ remote.rest = history.prev.rest

\* C14: with the run of another pipeline interleaved, the descriptor a run
\* commits is the one it would commit alone: the one rendered from its own
\* environment list.
C14_CommittedDescriptorIsOwn ==
    ( /\ puts # <<>>
      /\ puts[Len(puts)].run = runNo
      /\ puts[Len(puts)].accepted )
    => remote.ddk = write_ddk_json_multienvironment(
                        get_pipeline_cicd_environment(pipeline),
                        development_environments)

\* how many times the step was executed in this run
Count(s) == Cardinality({ i \in DOMAIN trace : trace[i] = s })

\* position of the (first) execution of the step in this run
Pos(s) == CHOOSE i \in DOMAIN trace : trace[i] = s

\* C21: tagging and the compliance rules run exactly once in a run that
\* succeeds, never twice in any run, after the whole topology (pipelines,
\* stages, build projects) has been added and before the local cleanup; a
\* failure of the compliance rules ends the run as failed.
C21_TaggingAndComplianceOnce ==
    /\ Count("tagging") <= 1
    /\ Count("compliance") <= 1
    /\ status = "Succeeded" => (Count("tagging") = 1 /\ Count("compliance") = 1)
    /\ Did("tagging") =>
           /\ Did("topology")
           /\ Pos("topology") < Pos("tagging")
           /\ pipelines = (IF pipeline.devStrategy = "trunk"
                           THEN TrunkPipelines(pipeline, development_environments)
                           ELSE GitflowPipelines(pipeline, development_environments))
           /\ Len(build_projects) = Len(development_environments)
    /\ Did("compliance") => (Did("tagging") /\ Pos("tagging") < Pos("compliance"))
    /\ Did("cleanup") => (Did("compliance") /\ Pos("compliance") < Pos("cleanup"))
    /\ (Did("compliance") /\ "nag" \notin resources) =>
           (status = "Failed" /\ ~Did("cleanup"))

\* C21 witness: a gitflow run over two environments went through tagging and
\* the compliance rules and ended with the cleanup
C21_Witness ==
    /\ status = "Succeeded"
    /\ pipeline.devStrategy = "gitflow"
    /\ Len(pipelines) = 2
    /\ Len(build_projects) = 2
    /\ {"tags", "nag"} \subseteq resources
    /\ Count("tagging") = 1
    /\ Count("compliance") = 1
    /\ Did("cleanup")

\* C22: every repository resource a run emits carries the retain policy, the
\* repository of a deployed stack is never under another policy, and no step
\* (a deployment of an update-path template included) removes a repository
\* that exists.
C22_RepositoryNeverDeleted ==
    /\ []( /\ "CodecommitRepository" \in resources => "retain" \in resources
           /\ remote.removal \in {None, "RETAIN"} )
    /\ [][remote.exists => remote'.exists]_vars

\* C22 witness: the first run emitted the repository, the second took the
\* update path and its template, without repository resource, was deployed:
\* the repository left the stack and is still there
C22_Witness ==
    /\ runNo = 2
    /\ history.prev.probe = "Absent"
    /\ history.prev.status = "Succeeded"
    /\ status = "Succeeded"
    /\ probe = "Present"
    /\ "CodecommitRepository" \notin resources
    /\ remote.exists
    /\ remote.removal = None

\* every stage of kind Build of every pipeline of the run
BuildStages ==
    { st \in UNION { Range(pipelines[i].stages) : i \in DOMAIN pipelines } :
        st.kind = "Build" }

\* C23: under trunk and under gitflow there is exactly one build project per
\* environment, every Deploy-Stage-<stage> stage runs exactly one build
\* project and that project's STAGE is <stage>, and DEV_STAGES of every
\* build project is the list of all stages in the order of the store.
C23_OneBuildProjectPerEnvironment ==
    Did("topology") =>
        LET envs == development_environments
        IN  /\ Len(build_projects) = Len(envs)
            /\ \A k \in DOMAIN envs :
                   Cardinality({ i \in DOMAIN build_projects :
                                   build_projects[i].stage = envs[k].stage }) = 1
            /\ Cardinality(BuildStages) = Len(envs)
            /\ \A st \in BuildStages :
                   /\ Cardinality({ i \in DOMAIN build_projects :
                                      build_projects[i].id = st.project }) = 1
                   /\ \A i \in DOMAIN build_projects :
                          build_projects[i].id = st.project =>
                              st.name = "Deploy-Stage-"
                                  \o build_projects[i].environment_variables.STAGE
            /\ \A i \in DOMAIN build_projects :
                   /\ Cardinality({ st \in BuildStages :
                                      st.project = build_projects[i].id }) = 1
                   /\ build_projects[i].environment_variables.DEV_STAGES
                          = [k \in DOMAIN envs |-> envs[k].stage]

\* C23 witness: trunk, the store returned prod (order 3) before dev (order 1):
\* the first build project is dev's and DEV_STAGES keeps the store order
C23_Witness ==
    /\ Synthesized("trunk")
    /\ StageOrders(development_environments) = << <<"prod", 3>>, <<"dev", 1>> >>
    /\ Len(build_projects) = 2
    /\ build_projects[1].environment_variables.STAGE = "dev"
    /\ build_projects[1].environment_variables.DEV_STAGES = <<"prod", "dev">>
    /\ build_projects[2].environment_variables.DEV_STAGES = <<"prod", "dev">>

\* C24: for one dataset database name, the shared database names built for
\* two share objects with distinct uris differ, truncated or not.
C24_SharedDbNameUniquePerShare ==
    \A k, l \in DOMAIN calls :
        ( /\ calls[k].name # <<>>
          /\ calls[l].name # <<>>
          /\ calls[k].uri # calls[l].uri
          /\ calls[k].db = calls[l].db )
        => calls[k].name # calls[l].name

\* the calls of approve_share / reject_share refresh_shares has made, in order
Attempts ==
    SelectSeq(calls, LAMBDA c : c.op \in {"approve_share", "reject_share"})

\* the share objects whose status is Approved or Rejected, in the order of
\* the table
Refreshable ==
    SelectSeq(share_objects, LAMBDA sh : sh.status = "Approved" \/ sh.status = "Rejected")

\* C25: refresh_shares ends having attempted every share whose status is
\* Approved or Rejected, and returns True.
C25_EveryShareAttempted ==
    sharing_pc = "done" => /\ Len(Attempts) = Len(Refreshable)
                           /\ returned = "True"

\* the four handlers
HandlerOps ==
    {"CrossAccountShareApproval.approve_share", "SameAccountShareApproval.approve_share",
     "CrossAccountShareRevoke.revoke_share", "SameAccountShareRevoke.revoke_share"}

\* the share object of a uri
ShareOf(uri) == CHOOSE sh \in Range(share_objects) : sh.shareUri = uri

\* C26: in a call of approve_share or reject_share the pivot role is granted
\* all permissions on the dataset's database in the source account before any
\* handler is invoked; the handler invoked is the cross-account one exactly
\* when the source and target account ids differ and the same-account one
\* exactly when they are equal (the approval for approve_share, the revoke for
\* reject_share); one call invokes one handler, never two, and none only when
\* an earlier step of the call raised.
C26_GrantThenOneHandlerByAccounts ==
    \A k \in DOMAIN calls :
        LET c  == calls[k]
            sh == ShareOf(c.uri)
        IN  /\ c.op = "grant_pivot_role_all_database_permissions"
               => /\ k > 1
                  /\ calls[k - 1].op \in {"approve_share", "reject_share"}
                  /\ calls[k - 1].uri = c.uri
                  /\ ~calls[k - 1].raised
                  /\ c.account = sh.source
                  /\ c.db = sh.GlueDatabaseName
            /\ c.op \in HandlerOps
               => /\ k > 1
                  /\ calls[k - 1].op = "grant_pivot_role_all_database_permissions"
                  /\ calls[k - 1].uri = c.uri
                  /\ ~calls[k - 1].raised
                  /\ calls[k - 2].op = (IF c.op \in {"CrossAccountShareApproval.approve_share",
                                                     "SameAccountShareApproval.approve_share"}
                                        THEN "approve_share" ELSE "reject_share")
                  /\ (c.op \in {"CrossAccountShareApproval.approve_share",
                                "CrossAccountShareRevoke.revoke_share"})
                        <=> (sh.source # sh.target)
                  /\ (c.op \in {"SameAccountShareApproval.approve_share",
                                "SameAccountShareRevoke.revoke_share"})
                        <=> (sh.source = sh.target)
                  /\ \A l \in DOMAIN calls :
                        (calls[l].op \in HandlerOps /\ calls[l].uri = c.uri) => l = k
            /\ (c.op \in {"approve_share", "reject_share"} /\ ~c.raised)
               => IF k = Len(calls)
                  THEN sharing_pc = "grant"
                  ELSE /\ calls[k + 1].op = "grant_pivot_role_all_database_permissions"
                       /\ calls[k + 1].uri = c.uri
            /\ (c.op = "grant_pivot_role_all_database_permissions" /\ ~c.raised)
               => IF k = Len(calls)
                  THEN sharing_pc = "dispatch"
                  ELSE /\ calls[k + 1].op \in HandlerOps
                       /\ calls[k + 1].uri = c.uri

\* C26 witness: refresh_shares is over; an Approved share between two
\* accounts went to the cross-account approval and a Rejected share inside
\* one account to the same-account revoke, each after its grant
C26_Witness ==
    /\ sharing_pc = "done"
    /\ \E k, l \in DOMAIN calls :
          /\ calls[k].op = "CrossAccountShareApproval.approve_share"
          /\ calls[l].op = "SameAccountShareRevoke.revoke_share"
          /\ k > 1 /\ calls[k - 1].op = "grant_pivot_role_all_database_permissions"
          /\ l > 1 /\ calls[l - 1].op = "grant_pivot_role_all_database_permissions"

====
